---- MODULE Spec2Model ----
(***************************************************************************)
(* vrchive-explorer (main.go): a terminal program that scans a folder of   *)
(* exported chat transcripts (.html), extracts one SearchResult per embed  *)
(* block and streams the records that contain the search text to the UI.   *)
(*                                                                         *)
(* A Go string is modelled as a sequence of symbols.  Letters, digits and  *)
(* punctuation are one symbol each; the class markers and tag names, which *)
(* the program only ever compares for equality, are written as one symbol. *)
(***************************************************************************)
EXTENDS Integers, Sequences, FiniteSets, TLC

(***************************************************************************)
(* Bounds of the model.                                                    *)
(***************************************************************************)
\* number of times the user may submit a search
MaxRequests == 2
\* number of updates that may wait in the application's update queue
QueueCap == 2
\* number of times the search text may change during one search
MaxEdits == 1

(***************************************************************************)
(* strings                                                                 *)
(***************************************************************************)
UpperLetters == <<"A","B","C","D","E","F","G","H","I","J","K","L","M",
                  "N","O","P","Q","R","S","T","U","V","W","X","Y","Z">>

LowerLetters == <<"a","b","c","d","e","f","g","h","i","j","k","l","m",
                  "n","o","p","q","r","s","t","u","v","w","x","y","z">>

\* strings.ToLower on one symbol
LowerChar(c) ==
  IF \E i \in 1..26 : UpperLetters[i] = c
    THEN LowerLetters[CHOOSE i \in 1..26 : UpperLetters[i] = c]
    ELSE c

\* strings.ToLower
ToLower(s) == [i \in 1..Len(s) |-> LowerChar(s[i])]

\* strings.Contains
Contains(s, substr) ==
  \E i \in 0..(Len(s) - Len(substr)) : SubSeq(s, i + 1, i + Len(substr)) = substr

\* strings.HasSuffix
HasSuffix(s, suffix) ==
  /\ Len(s) >= Len(suffix)
  /\ SubSeq(s, Len(s) - Len(suffix) + 1, Len(s)) = suffix

\* a case-sensitive comparison, the filter as it would be without ToLower
hasSearchTextCaseSensitive(text, searchText) == Contains(text, searchText)

\* main.go hasSearchText
hasSearchText(text, searchText) == Contains(ToLower(text), ToLower(searchText))

(***************************************************************************)
(* html.Node: the parser's output                                          *)
(***************************************************************************)
ElementNode == "element"
TextNode == "text"
DocumentNode == "document"

Attribute(k, v) == [key |-> k, val |-> v]

Element(tag, attr, kids) == [type |-> ElementNode, data |-> tag, attr |-> attr, kids |-> kids]

Text(s) == [type |-> TextNode, data |-> s, attr |-> <<>>, kids |-> <<>>]

Document(kids) == [type |-> DocumentNode, data |-> <<>>, attr |-> <<>>, kids |-> kids]

\* the class markers and tags the program looks for
cEmbedText == <<"chatlog__embed-text">>
cEmbedTitle == <<"chatlog__embed-title">>
cEmbedDescription == <<"chatlog__embed-description">>
cEmbedFields == <<"chatlog__embed-fields">>
cMarkdownPreserve == <<"chatlog__markdown chatlog__markdown-preserve">>
tagDiv == <<"div">>
tagA == <<"a">>
sSource == <<"S","o","u","r","c","e">>
sDownload == <<"D","o","w","n","l","o","a","d">>
sHtmlSuffix == <<".","h","t","m","l">>

\* main.go hasClass
hasClass(n, className) ==
  \E i \in 1..Len(n.attr) : n.attr[i].key = "class" /\ n.attr[i].val = className

\* the node reached from root by a path of child indexes
RECURSIVE NodeAt(_, _)
NodeAt(root, path) ==
  IF path = <<>> THEN root ELSE NodeAt(root.kids[Head(path)], Tail(path))

\* a traversal that visits the children before the node itself
RECURSIVE processAllItemsPostOrder(_, _)
RECURSIVE postOrderChildren(_, _, _)
processAllItemsPostOrder(root, path) ==
  LET n == NodeAt(root, path)
      self == IF n.type = ElementNode /\ n.data = tagDiv /\ hasClass(n, cEmbedText)
                THEN <<path>> ELSE <<>>
  IN postOrderChildren(root, path, 1) \o self

postOrderChildren(root, path, i) ==
  IF i > Len(NodeAt(root, path).kids) THEN <<>>
  ELSE processAllItemsPostOrder(root, Append(path, i)) \o postOrderChildren(root, path, i + 1)

\* main.go processAllItems: the paths of the embed containers at or below
\* path, in the order in which processNode is called on them
RECURSIVE processAllItems(_, _)
RECURSIVE processChildren(_, _, _)
processAllItems(root, path) ==
  LET n == NodeAt(root, path)
      self == IF n.type = ElementNode /\ n.data = tagDiv /\ hasClass(n, cEmbedText)
                THEN <<path>> ELSE <<>>
  IN self \o processChildren(root, path, 1)

processChildren(root, path, i) ==
  IF i > Len(NodeAt(root, path).kids) THEN <<>>
  ELSE processAllItems(root, Append(path, i)) \o processChildren(root, path, i + 1)

\* main.go findNodetypeRecursively: the elements of one tag at or below node,
\* in document order, without descending into a match
RECURSIVE findNodetypeRecursively(_, _)
RECURSIVE findNodetypeInChildren(_, _, _)
findNodetypeRecursively(node, nodeType) ==
  IF node.type = ElementNode /\ node.data = nodeType THEN <<node>>
  ELSE findNodetypeInChildren(node.kids, 1, nodeType)

findNodetypeInChildren(kids, i, nodeType) ==
  IF i > Len(kids) THEN <<>>
  ELSE findNodetypeRecursively(kids[i], nodeType) \o findNodetypeInChildren(kids, i + 1, nodeType)

\* main.go hasResurivelyText
RECURSIVE hasResurivelyText(_, _)
hasResurivelyText(node, searchText) ==
  \/ node.type = TextNode /\ hasSearchText(node.data, searchText)
  \/ \E i \in 1..Len(node.kids) : hasResurivelyText(node.kids[i], searchText)

\* main.go findNodeRecursively: the first node, depth first, that carries the
\* class; <<>> stands for nil, <<n>> for the node n
RECURSIVE findNodeRecursively(_, _)
RECURSIVE findNodeInChildren(_, _, _)
findNodeRecursively(node, className) ==
  IF hasClass(node, className) THEN <<node>>
  ELSE findNodeInChildren(node.kids, 1, className)

findNodeInChildren(kids, i, className) ==
  IF i > Len(kids) THEN <<>>
  ELSE LET result == findNodeRecursively(kids[i], className)
       IN IF result # <<>> THEN result ELSE findNodeInChildren(kids, i + 1, className)

(***************************************************************************)
(* processNode: the record of one embed                                    *)
(***************************************************************************)
\* SearchResult{}; panic is set when the routine ends in a run-time panic
\* instead of returning
EmptyResult == [Name |-> <<>>, DownloadLink |-> <<>>, SourceLink |-> <<>>, panic |-> FALSE]

Panicked(R) == [R EXCEPT !.panic = TRUE]

\* main.go processNode, the loop over the children of the title container
RECURSIVE titleLoop(_, _, _)
titleLoop(kids, i, R) ==
  IF R.panic \/ i > Len(kids) THEN R
  ELSE IF hasClass(kids[i], cMarkdownPreserve)
    THEN IF kids[i].kids = <<>>
           THEN Panicked(R)
           ELSE titleLoop(kids, i + 1, [R EXCEPT !.Name = kids[i].kids[1].data])
    ELSE titleLoop(kids, i + 1, R)

\* an anchor loop in which the first matching anchor wins
RECURSIVE anchorLoopFirstWins(_, _, _)
anchorLoopFirstWins(anchorTags, i, R) ==
  IF R.panic \/ i > Len(anchorTags) THEN R
  ELSE IF anchorTags[i].attr = <<>> THEN Panicked(R)
  ELSE LET hrefData == anchorTags[i].attr[1].val
           R1 == IF hasResurivelyText(anchorTags[i], sSource) /\ R.SourceLink = <<>>
                   THEN [R EXCEPT !.SourceLink = hrefData] ELSE R
           R2 == IF hasResurivelyText(anchorTags[i], sDownload) /\ R1.DownloadLink = <<>>
                   THEN [R1 EXCEPT !.DownloadLink = hrefData] ELSE R1
       IN anchorLoopFirstWins(anchorTags, i + 1, R2)

\* main.go processNode, the loop over the anchors of the link container
RECURSIVE anchorLoop(_, _, _)
anchorLoop(anchorTags, i, R) ==
  IF R.panic \/ i > Len(anchorTags) THEN R
  ELSE IF anchorTags[i].attr = <<>> THEN Panicked(R)
  ELSE LET hrefData == anchorTags[i].attr[1].val
           R1 == IF hasResurivelyText(anchorTags[i], sSource)
                   THEN [R EXCEPT !.SourceLink = hrefData] ELSE R
           R2 == IF hasResurivelyText(anchorTags[i], sDownload)
                   THEN [R1 EXCEPT !.DownloadLink = hrefData] ELSE R1
       IN anchorLoop(anchorTags, i + 1, R2)

\* main.go processNode, the condition under which a child of the embed is
\* searched for links
usesChildForLinks(child, R) ==
  hasClass(child, cEmbedDescription) \/ (hasClass(child, cEmbedFields) /\ R.Name # <<>>)

\* main.go processNode, the link container of a child
linkContainerOf(child) ==
  LET fields == findNodeRecursively(child, cEmbedFields)
  IN IF fields = <<>> THEN findNodeRecursively(child, cEmbedDescription) ELSE fields

\* main.go processNode, the body of the loop over the embed's children
childStep(child, R) ==
  LET R1 == IF hasClass(child, cEmbedTitle) THEN titleLoop(child.kids, 1, R) ELSE R
  IN IF R1.panic THEN R1
     ELSE IF usesChildForLinks(child, R1)
       THEN LET linkContainer == linkContainerOf(child)
            IN IF linkContainer = <<>> THEN Panicked(R1)
               ELSE anchorLoop(findNodetypeRecursively(linkContainer[1], tagA), 1, R1)
       ELSE R1

RECURSIVE childLoop(_, _, _)
childLoop(kids, i, R) ==
  IF R.panic \/ i > Len(kids) THEN R
  ELSE childLoop(kids, i + 1, childStep(kids[i], R))

\* main.go processNode up to the filter: the record built for an embed
buildResult(doc) == childLoop(doc.kids, 1, EmptyResult)

\* main.go processNode, the filter: whether the record is sent
passesFilter(Result, searchText) ==
  \/ hasSearchText(Result.Name, searchText)
  \/ hasSearchText(Result.SourceLink, searchText)
  \/ hasSearchText(Result.DownloadLink, searchText)

(***************************************************************************)
(* The data folder: the documents the model runs the program on            *)
(***************************************************************************)
sPack == <<"P","a","c","k">>
sKit == <<"K","i","t">>
sCityPack == <<"C","i","t","y"," ","P","a","c","k">>
sMirror == <<"m","i","r","r","o","r">>
sBothWords == <<"D","o","w","n","l","o","a","d"," ","S","o","u","r","c","e"," ","P","a","c","k">>
sDOWNLOAD == <<"D","O","W","N","L","O","A","D">>
sGetTheSource == <<"g","e","t"," ","s","o","u","r","c","e">>
urlA == <<"h",":","a">>
urlB == <<"h",":","b">>
urlC == <<"h",":","c">>
urlD == <<"h",":","d">>

Div(class, kids) == Element(tagDiv, <<Attribute("class", class)>>, kids)

Anchor(href, kids) == Element(tagA, <<Attribute("href", href)>>, kids)

TitleBlock(kids) == Div(cEmbedTitle, <<Div(cMarkdownPreserve, kids)>>)

\* the example of the specification: a title, a Source and a Download link
embedExample ==
  Div(cEmbedText,
      << TitleBlock(<<Text(sCityPack)>>),
         Div(cEmbedDescription,
             << Anchor(urlA, <<Text(sSource)>>),
                Element(<<"span">>, <<>>,
                        <<Anchor(urlB, <<Element(<<"strong">>, <<>>, <<Text(sDownload)>>)>>)>>) >>) >>)

\* several anchors match the same word; the last of them matches both words
embedManyAnchors ==
  Div(cEmbedText,
      << TitleBlock(<<Text(sKit)>>),
         Div(cEmbedDescription,
             << Div(cEmbedFields,
                    << Anchor(urlA, <<Text(sDOWNLOAD)>>),
                       Anchor(urlC, <<Text(sGetTheSource)>>),
                       Anchor(urlB, <<Text(sBothWords)>>),
                       Anchor(urlD, <<Text(sMirror)>>) >>) >>) >>)

\* an anchor whose first attribute is its class, the href coming second
embedClassFirst ==
  Div(cEmbedText,
      << TitleBlock(<<Text(sKit)>>),
         Div(cEmbedFields,
             << Element(tagA, <<Attribute("class", <<"l","n","k">>), Attribute("href", urlD)>>,
                        <<Text(sDownload)>>) >>) >>)

\* a description block and no title
embedNoTitleDescription ==
  Div(cEmbedText, << Div(cEmbedDescription, <<Anchor(urlA, <<Text(sSource)>>)>>) >>)

\* a fields block and no title
embedNoTitleFields ==
  Div(cEmbedText, << Div(cEmbedFields, <<Anchor(urlB, <<Text(sDownload)>>)>>) >>)

\* the fields block comes before the title
embedFieldsBeforeTitle ==
  Div(cEmbedText,
      << Div(cEmbedFields, <<Anchor(urlB, <<Text(sDownload)>>)>>),
         TitleBlock(<<Text(sPack)>>) >>)

\* a description block and a fields block, both direct children
embedTwoContainers ==
  Div(cEmbedText,
      << TitleBlock(<<Text(sPack)>>),
         Div(cEmbedDescription, <<Anchor(urlA, <<Text(sSource)>>), Anchor(urlC, <<Text(sDownload)>>)>>),
         Div(cEmbedFields, <<Anchor(urlB, <<Text(sDownload)>>)>>) >>)

\* an embed inside the description of another embed
embedNested ==
  Div(cEmbedText,
      << TitleBlock(<<Text(sCityPack)>>),
         Div(cEmbedDescription,
             << Div(cEmbedText, <<TitleBlock(<<Text(sKit)>>)>>) >>) >>)

\* the markdown-preserve node has no child
embedEmptyPreserve ==
  Div(cEmbedText, << Div(cEmbedTitle, <<Div(cMarkdownPreserve, <<>>)>>) >>)

\* an anchor without attributes
embedBareAnchor ==
  Div(cEmbedText,
      << TitleBlock(<<Text(sPack)>>),
         Div(cEmbedFields, <<Element(tagA, <<>>, <<Text(sDownload)>>)>>) >>)

Page(kids) ==
  Document(<<Element(<<"html">>, <<>>,
                     <<Element(<<"head">>, <<>>, <<>>), Element(<<"body">>, <<>>, kids)>>)>>)

\* no embed: the class of the div is not exactly the marker
docNoEmbed ==
  Page(<< Div(<<"chatlog__embed-text", " ", "e","x","t","r","a">>, <<TitleBlock(<<Text(sPack)>>)>>),
          Element(<<"span">>, <<Attribute("class", cEmbedText)>>, <<Text(sPack)>>) >>)

docExample == Page(<<embedExample, Div(<<"m","s","g">>, <<embedManyAnchors>>)>>)

docGated == Page(<<embedNoTitleDescription, embedNoTitleFields, embedFieldsBeforeTitle, embedClassFirst>>)

docNested == Page(<<embedNested, embedTwoContainers>>)

docEmptyPreserve == Page(<<embedExample, embedEmptyPreserve, embedManyAnchors>>)

docBareAnchor == Page(<<embedBareAnchor>>)

\* a directory entry: its name, whether os.Open, os.ReadFile and html.Parse
\* succeed on it, and the tree html.Parse returns
File(name, open, read, parse, doc) ==
  [name |-> name, open |-> open, read |-> read, parse |-> parse, doc |-> doc]

HtmlName(n) == <<n>> \o sHtmlSuffix

\* the data folders: whether os.ReadDir succeeds, and the listing it returns
Folders ==
  { [ok |-> FALSE, files |-> <<>>],
    [ok |-> TRUE, files |-> <<>>],
    [ok |-> TRUE, files |-> << File(HtmlName("1"), FALSE, TRUE, TRUE, docExample),
                               File(HtmlName("2"), TRUE, TRUE, TRUE, docExample),
                               File(<<"3",".","t","x","t">>, TRUE, TRUE, TRUE, docExample),
                               File(HtmlName("4"), TRUE, TRUE, TRUE, docNoEmbed),
                               File(HtmlName("5"), TRUE, TRUE, TRUE, docNested) >>],
    [ok |-> TRUE, files |-> << File(HtmlName("1"), TRUE, FALSE, TRUE, docExample),
                               File(HtmlName("2"), TRUE, TRUE, FALSE, docExample),
                               File(<<"3",".","H","T","M","L">>, TRUE, TRUE, TRUE, docExample),
                               File(HtmlName("4"), TRUE, TRUE, TRUE, docGated) >>],
    [ok |-> TRUE, files |-> << File(HtmlName("1"), FALSE, TRUE, TRUE, docExample),
                               File(HtmlName("2"), TRUE, FALSE, TRUE, docExample),
                               File(HtmlName("3"), TRUE, TRUE, FALSE, docExample) >>],
    [ok |-> TRUE, files |-> << File(HtmlName("1"), TRUE, TRUE, TRUE, docEmptyPreserve),
                               File(HtmlName("2"), TRUE, TRUE, TRUE, docExample) >>],
    [ok |-> TRUE, files |-> << File(HtmlName("1"), TRUE, TRUE, TRUE, docGated),
                               File(HtmlName("2"), TRUE, TRUE, TRUE, docBareAnchor) >>] }

\* the texts the user types
SearchTexts == { <<>>, <<"p","a","c","k">>, <<"H",":","B">>, <<"z">> }

(***************************************************************************)
(* The state of the program                                                *)
(***************************************************************************)
VARIABLES
  folder,            \* the data folder (dataFolder and what the file system holds there)
  searchText,        \* the package variable searchText
  disabled,          \* whether the input field is disabled
  resultList,        \* the text view: what has been written to it since the last Clear
  requests,          \* how many times ProcessInput has run; its latest run is request `requests`
  search,            \* per request, the goroutine running Search
  chanClosed,        \* per request, whether resultChan has been closed
  consumer,          \* per request, the goroutine receiving from resultChan
  startedSearching,  \* per request, the variable the queued closures share
  updates,           \* the application's queue of updates, run by the UI goroutine in order
  crashed,           \* the process has died of a panic in a goroutine
  log,               \* per request, the "Result: ..." lines processNode logged
  searched,          \* per request, the listing indexes searchFile was called on
  queued,            \* per request, the updates its consumer has queued so far
  edits              \* how often the search text has changed since the latest submission

vars == <<folder, searchText, disabled, resultList, requests, search, chanClosed,
          consumer, startedSearching, updates, crashed, log, searched, queued, edits>>

Requests == 1..MaxRequests

IdleSearch == [pc |-> "idle", searchTextCopy |-> <<>>, index |-> 0, embeds |-> <<>>, Result |-> EmptyResult]

IdleConsumer == [pc |-> "idle", result |-> EmptyResult]

Init ==
  /\ folder \in Folders
  /\ searchText = <<>>
  /\ disabled = FALSE
  /\ resultList = <<>>
  /\ requests = 0
  /\ search = [r \in Requests |-> IdleSearch]
  /\ chanClosed = [r \in Requests |-> FALSE]
  /\ consumer = [r \in Requests |-> IdleConsumer]
  /\ startedSearching = [r \in Requests |-> FALSE]
  /\ updates = <<>>
  /\ crashed = FALSE
  /\ log = [r \in Requests |-> <<>>]
  /\ searched = [r \in Requests |-> {}]
  /\ queued = [r \in Requests |-> <<>>]
  /\ edits = 0

(***************************************************************************)
(* The UI goroutine: the input field's callbacks and the queued updates    *)
(***************************************************************************)
\* the input field's changed callback, run when the user edits the field; a
\* disabled field takes no input
ChangedFunc ==
  /\ ~crashed
  /\ ~disabled
  /\ \E text \in SearchTexts : text # searchText /\ searchText' = text
  /\ UNCHANGED <<edits, folder, disabled, resultList, requests, search, chanClosed, consumer,
                 startedSearching, updates, crashed, log, searched, queued>>

\* the changed callback run while the field is disabled, that is while a
\* search is under way.  The callback itself has no guard and Search takes
\* no lock: only the field's disabled flag keeps the two apart.  This action
\* is part of SpecCallback alone, which looks at the program without that
\* protection.
ChangedFuncDuringSearch ==
  /\ ~crashed
  /\ disabled
  /\ edits < MaxEdits
  /\ edits' = edits + 1
  /\ \E text \in SearchTexts : text # searchText /\ searchText' = text
  /\ UNCHANGED <<folder, disabled, resultList, requests, search, chanClosed, consumer,
                 startedSearching, updates, crashed, log, searched, queued>>

\* main.go ProcessInput: clear the view, make the channel, start the two goroutines
ProcessInput ==
  LET r == requests + 1
  IN /\ requests' = r
     /\ resultList' = <<[kind |-> "searching", req |-> r, Result |-> EmptyResult]>>
     /\ search' = [search EXCEPT ![r] = [IdleSearch EXCEPT !.pc = "start"]]
     /\ consumer' = [consumer EXCEPT ![r] = [IdleConsumer EXCEPT !.pc = "receive"]]
     /\ startedSearching' = [startedSearching EXCEPT ![r] = TRUE]
     /\ edits' = 0
     /\ UNCHANGED <<folder, searchText, chanClosed, updates, crashed, log, searched, queued>>

\* a done callback that starts the search and leaves the field enabled
DoneFuncLeavesEnabled ==
  /\ ~crashed
  /\ ~disabled
  /\ requests < MaxRequests
  /\ UNCHANGED disabled
  /\ ProcessInput

\* the input field's done callback, run when the user presses Enter in the
\* field (a disabled field takes no key): disable the field, then ProcessInput
DoneFunc ==
  /\ ~crashed
  /\ ~disabled
  /\ requests < MaxRequests
  /\ disabled' = TRUE
  /\ ProcessInput

\* the UI goroutine runs the update at the head of the queue: a closure
\* queued by ProcessInput's goroutine.  SetText("") in the completion update
\* runs the changed callback with the empty text.
RunUpdate ==
  /\ ~crashed
  /\ updates # <<>>
  /\ LET u == Head(updates)
     IN /\ updates' = Tail(updates)
        /\ IF u.kind = "record"
             THEN /\ resultList' = Append(IF startedSearching[u.req] THEN <<>> ELSE resultList, u)
                  /\ startedSearching' = [startedSearching EXCEPT ![u.req] = FALSE]
                  /\ UNCHANGED <<searchText, disabled>>
             ELSE /\ resultList' = Append(resultList, u)
                  /\ searchText' = <<>>
                  /\ disabled' = FALSE
                  /\ UNCHANGED startedSearching
  /\ UNCHANGED <<edits, folder, requests, search, chanClosed, consumer, crashed, log, searched, queued>>

(***************************************************************************)
(* The goroutine running Search                                            *)
(***************************************************************************)
\* main.go Search, up to the loop: copy the search text, list the folder
SearchStart(r) ==
  /\ ~crashed
  /\ search[r].pc = "start"
  /\ search' = [search EXCEPT ![r] =
                  IF folder.ok
                    THEN [@ EXCEPT !.searchTextCopy = searchText, !.index = 1, !.pc = "loop"]
                    ELSE [@ EXCEPT !.searchTextCopy = searchText, !.pc = "returned"]]
  /\ UNCHANGED <<edits, folder, searchText, disabled, resultList, requests, chanClosed, consumer,
                 startedSearching, updates, crashed, log, searched, queued>>

\* a scan that gives up at the first document it cannot load
abandonScan(s) == [s EXCEPT !.index = Len(folder.files) + 1]

\* main.go searchFile and ParseHTML, the early returns: the loop of Search
\* goes on with the next entry
skipFile(s) == [s EXCEPT !.index = @ + 1]

\* the goroutine's position once processNode has returned for the first of
\* the embeds left in the document
afterEmbed(s) ==
  IF Len(s.embeds) > 1
    THEN [s EXCEPT !.embeds = Tail(@), !.pc = "node", !.Result = EmptyResult]
    ELSE [s EXCEPT !.embeds = <<>>, !.index = @ + 1, !.pc = "loop", !.Result = EmptyResult]

\* main.go Search, one iteration of the loop, up to the first call of
\* processNode: the suffix test, searchFile, ParseHTML, processAllItems
SearchFile(r) ==
  /\ ~crashed
  /\ search[r].pc = "loop"
  /\ search[r].index <= Len(folder.files)
  /\ LET file == folder.files[search[r].index]
         embeds == processAllItems(file.doc, <<>>)
     IN IF ~HasSuffix(file.name, sHtmlSuffix)
          THEN /\ search' = [search EXCEPT ![r].index = @ + 1]
               /\ UNCHANGED searched
          ELSE /\ searched' = [searched EXCEPT ![r] = @ \cup {search[r].index}]
               /\ search' = [search EXCEPT ![r] =
                    IF ~file.open \/ ~file.read \/ ~file.parse THEN skipFile(@)
                    ELSE IF embeds = <<>> THEN [@ EXCEPT !.index = @ + 1]
                    ELSE [@ EXCEPT !.embeds = embeds, !.pc = "node"]]
  /\ UNCHANGED <<edits, folder, searchText, disabled, resultList, requests, chanClosed, consumer,
                 startedSearching, updates, crashed, log, queued>>

\* main.go processNode, called by processAllItems on the next embed of the
\* document: build the record, log it, and go on to send it if it passes the
\* filter; a run-time panic in a goroutine ends the process
ProcessNode(r) ==
  /\ ~crashed
  /\ search[r].pc = "node"
  /\ LET file == folder.files[search[r].index]
         path == Head(search[r].embeds)
         Result == buildResult(NodeAt(file.doc, path))
         line == [file |-> search[r].index, path |-> path, Result |-> Result,
                  sent |-> passesFilter(Result, searchText)]
     IN IF Result.panic
          THEN /\ crashed' = TRUE
               /\ search' = [search EXCEPT ![r].pc = "panic"]
               /\ UNCHANGED log
          ELSE /\ UNCHANGED crashed
               /\ log' = [log EXCEPT ![r] = Append(@, line)]
               /\ search' = [search EXCEPT ![r] =
                    IF line.sent THEN [@ EXCEPT !.pc = "send", !.Result = Result]
                    ELSE afterEmbed(@)]
  /\ UNCHANGED <<edits, folder, searchText, disabled, resultList, requests, chanClosed, consumer,
                 startedSearching, updates, searched, queued>>

\* the channel is unbuffered: the send in processNode and the receive in
\* ProcessInput's goroutine happen together
Receive(r) ==
  /\ ~crashed
  /\ search[r].pc = "send"
  /\ consumer[r].pc = "receive"
  /\ consumer' = [consumer EXCEPT ![r] = [pc |-> "queue", result |-> search[r].Result]]
  /\ search' = [search EXCEPT ![r] = afterEmbed(@)]
  /\ UNCHANGED <<edits, folder, searchText, disabled, resultList, requests, chanClosed,
                 startedSearching, updates, crashed, log, searched, queued>>

\* main.go Search, after the loop: close the channel and return
SearchClose(r) ==
  /\ ~crashed
  /\ search[r].pc = "loop"
  /\ search[r].index > Len(folder.files)
  /\ chanClosed' = [chanClosed EXCEPT ![r] = TRUE]
  /\ search' = [search EXCEPT ![r].pc = "returned"]
  /\ UNCHANGED <<edits, folder, searchText, disabled, resultList, requests, consumer,
                 startedSearching, updates, crashed, log, searched, queued>>

(***************************************************************************)
(* The goroutine started by ProcessInput                                   *)
(***************************************************************************)
\* app.QueueUpdateDraw: the update joins the end of the queue
queueUpdate(q, u) == Append(q, u)

\* ProcessInput's goroutine queues the update that writes the record it received
QueueResult(r) ==
  /\ ~crashed
  /\ consumer[r].pc = "queue"
  /\ Len(updates) < QueueCap
  /\ LET u == [kind |-> "record", req |-> r, Result |-> consumer[r].result]
     IN /\ updates' = queueUpdate(updates, u)
        /\ queued' = [queued EXCEPT ![r] = Append(@, u)]
  /\ consumer' = [consumer EXCEPT ![r] = [pc |-> "receive", result |-> EmptyResult]]
  /\ UNCHANGED <<edits, folder, searchText, disabled, resultList, requests, search, chanClosed,
                 startedSearching, crashed, log, searched>>

\* the receive reports the channel closed: leave the loop
ReceiveClosed(r) ==
  /\ ~crashed
  /\ consumer[r].pc = "receive"
  /\ chanClosed[r]
  /\ consumer' = [consumer EXCEPT ![r].pc = "signal"]
  /\ UNCHANGED <<edits, folder, searchText, disabled, resultList, requests, search, chanClosed,
                 startedSearching, updates, crashed, log, searched, queued>>

\* ProcessInput's goroutine queues the update that writes "Done!" and
\* enables the field, and ends
QueueDone(r) ==
  /\ ~crashed
  /\ consumer[r].pc = "signal"
  /\ Len(updates) < QueueCap
  /\ LET u == [kind |-> "done", req |-> r, Result |-> EmptyResult]
     IN /\ updates' = queueUpdate(updates, u)
        /\ queued' = [queued EXCEPT ![r] = Append(@, u)]
  /\ consumer' = [consumer EXCEPT ![r].pc = "exit"]
  /\ UNCHANGED <<edits, folder, searchText, disabled, resultList, requests, search, chanClosed,
                 startedSearching, crashed, log, searched>>

(***************************************************************************)
(* Specifications                                                          *)
(***************************************************************************)
Next ==
  \/ ChangedFunc
  \/ DoneFunc
  \/ RunUpdate
  \/ \E r \in Requests : SearchStart(r)
  \/ \E r \in Requests : SearchFile(r)
  \/ \E r \in Requests : ProcessNode(r)
  \/ \E r \in Requests : Receive(r)
  \/ \E r \in Requests : SearchClose(r)
  \/ \E r \in Requests : QueueResult(r)
  \/ \E r \in Requests : ReceiveClosed(r)
  \/ \E r \in Requests : QueueDone(r)

Spec == Init /\ [][Next]_vars

\* the program with its changed callback also run during a search
NextCallback == Next \/ ChangedFuncDuringSearch

SpecCallback == Init /\ [][NextCallback]_vars

(***************************************************************************)
(* Definitions used to state the properties                                *)
(***************************************************************************)
\* the paths of all nodes at or below n
RECURSIVE PathsBelow(_)
PathsBelow(n) ==
  {<<>>} \cup UNION { { <<i>> \o p : p \in PathsBelow(n.kids[i]) } : i \in 1..Len(n.kids) }

IsEmbed(n) == n.type = ElementNode /\ n.data = tagDiv /\ hasClass(n, cEmbedText)

EmbedPaths(doc) == { p \in PathsBelow(doc) : IsEmbed(NodeAt(doc, p)) }

\* p comes before q in document order: p is a proper prefix of q, or p
\* branches off to the left of q
PathBefore(p, q) ==
  \E k \in 0..Len(p) :
    /\ k <= Len(q)
    /\ SubSeq(p, 1, k) = SubSeq(q, 1, k)
    /\ IF k = Len(p) THEN k < Len(q) ELSE k < Len(q) /\ p[k + 1] < q[k + 1]

\* s is a substring of t when letter case is ignored
CISubstring(s, t) ==
  \E i \in 1..(Len(t) + 1) : \E j \in (i - 1)..Len(t) :
     ToLower(SubSeq(t, i, j)) = ToLower(s)

MatchesSearch(R, s) ==
  CISubstring(s, R.Name) \/ CISubstring(s, R.SourceLink) \/ CISubstring(s, R.DownloadLink)

Eligible(i) == HasSuffix(folder.files[i].name, sHtmlSuffix)

Loadable(i) == folder.files[i].open /\ folder.files[i].read /\ folder.files[i].parse

EmbedOf(line) == NodeAt(folder.files[line.file].doc, line.path)

\* the descendant text of an anchor contains the word, letter case ignored
AnchorSays(a, word) ==
  \E p \in PathsBelow(a) : NodeAt(a, p).type = TextNode /\ CISubstring(word, NodeAt(a, p).data)

\* the record of the embed after its first i children
ResultAfter(n, i) == childLoop(SubSeq(n.kids, 1, i), 1, EmptyResult)

\* the anchors processNode collects for an embed, container after container
RECURSIVE CollectedAnchors(_, _)
CollectedAnchors(n, i) ==
  IF i > Len(n.kids) THEN <<>>
  ELSE LET before == IF hasClass(n.kids[i], cEmbedTitle)
                       THEN titleLoop(n.kids[i].kids, 1, ResultAfter(n, i - 1))
                       ELSE ResultAfter(n, i - 1)
           here == IF usesChildForLinks(n.kids[i], before)
                     THEN findNodetypeRecursively(linkContainerOf(n.kids[i])[1], tagA)
                     ELSE <<>>
       IN here \o CollectedAnchors(n, i + 1)

\* the href (the first attribute's value) of the last anchor that says the
\* word, empty when none does
LastHref(anchors, word) ==
  LET hits == { i \in 1..Len(anchors) : AnchorSays(anchors[i], word) }
  IN IF hits = {} THEN <<>>
     ELSE anchors[CHOOSE i \in hits : \A j \in hits : j <= i].attr[1].val

SentLines(r) == SelectSeq(log[r], LAMBDA l : l.sent)

QueuedRecords(r) == SelectSeq(queued[r], LAMBDA u : u.kind = "record")

InFlight(r) == search[r].pc \in {"start", "loop", "node", "send"}

(***************************************************************************)
(* C1                                                                      *)
(***************************************************************************)
\* C1: when the folder listing succeeds, the Search task closes the output
\* channel whatever the documents contain: a Search task that has ended has
\* closed its channel.
C1_SearchEndsWithChannelClosed ==
  \A r \in Requests :
    (folder.ok /\ search[r].pc \in {"returned", "panic"}) => chanClosed[r]

(***************************************************************************)
(* C2                                                                      *)
(***************************************************************************)
\* C2: when the folder cannot be listed, no record is sent and the channel
\* is still closed once Search has returned.
C2_UnlistableFolderStillCloses ==
  \A r \in Requests :
    (~folder.ok /\ search[r].pc = "returned") => (chanClosed[r] /\ log[r] = <<>>)

(***************************************************************************)
(* C3                                                                      *)
(***************************************************************************)
\* C3: for every embed processNode builds one record and sends it exactly
\* when the request's search string is a case-insensitive substring of its
\* Name, SourceLink or DownloadLink; no record that fails the match reaches
\* the consumer, the update queue or the result list.
C3_FilterCorrect ==
  \A r \in Requests :
    /\ \A i \in 1..Len(log[r]) :
         log[r][i].sent <=> MatchesSearch(log[r][i].Result, search[r].searchTextCopy)
    /\ \A i, j \in 1..Len(log[r]) :
         (log[r][i].file = log[r][j].file /\ log[r][i].path = log[r][j].path) => i = j
    /\ search[r].pc = "send" => MatchesSearch(search[r].Result, search[r].searchTextCopy)
    /\ consumer[r].pc = "queue" => MatchesSearch(consumer[r].result, search[r].searchTextCopy)
    /\ \A i \in 1..Len(updates) :
         (updates[i].req = r /\ updates[i].kind = "record")
            => MatchesSearch(updates[i].Result, search[r].searchTextCopy)
    /\ \A i \in 1..Len(resultList) :
         (resultList[i].req = r /\ resultList[i].kind = "record")
            => MatchesSearch(resultList[i].Result, search[r].searchTextCopy)

\* a search for "pack" has shown "City Pack" and has dropped another record
C3_Witness ==
  \E r \in Requests :
    /\ search[r].searchTextCopy = <<"p","a","c","k">>
    /\ \E i \in 1..Len(resultList) :
         resultList[i].kind = "record" /\ resultList[i].req = r /\ resultList[i].Result.Name = sCityPack
    /\ \E i \in 1..Len(log[r]) : ~log[r][i].sent

(***************************************************************************)
(* C4                                                                      *)
(***************************************************************************)
\* C4: a child of the embed carrying the description or the fields marker is
\* searched for links only if Name is non-empty when it is visited; an embed
\* with no title resolved before any such child has both links empty.
C4_LinksOnlyAfterTitle ==
  \A r \in Requests : \A i \in 1..Len(log[r]) :
    LET n == EmbedOf(log[r][i])
    IN (\A k \in 1..Len(n.kids) :
           (hasClass(n.kids[k], cEmbedDescription) \/ hasClass(n.kids[k], cEmbedFields))
              => ResultAfter(n, k - 1).Name = <<>>)
       => (log[r][i].Result.SourceLink = <<>> /\ log[r][i].Result.DownloadLink = <<>>)

(***************************************************************************)
(* C5                                                                      *)
(***************************************************************************)
\* C5: a gap in a record (a markdown-preserve node without a child, an
\* anchor without attributes) never aborts the scan: processNode returns and
\* the process goes on.
C5_GapsNeverAbortTheScan ==
  /\ ~crashed
  /\ \A r \in Requests : search[r].pc # "panic"

C8_BadDocumentsAreSkipped ==
  \A r \in Requests :
    /\ \A i \in 1..Len(log[r]) :
         /\ Eligible(log[r][i].file)
         /\ Loadable(log[r][i].file)
         /\ log[r][i].path \in EmbedPaths(folder.files[log[r][i].file].doc)
    /\ chanClosed[r] =>
         /\ searched[r] = { i \in 1..Len(folder.files) : Eligible(i) }
         /\ \A i \in searched[r] : Loadable(i) =>
              \A p \in EmbedPaths(folder.files[i].doc) :
                \E k \in 1..Len(log[r]) : log[r][k].file = i /\ log[r][k].path = p

\* the channel is closed after a scan that met a document it could not load
\* and a document without embeds, and processed a document after both
C8_Witness ==
  \E r \in Requests :
    /\ chanClosed[r]
    /\ \E i, j \in searched[r] : \E k \in 1..Len(log[r]) :
         /\ ~Loadable(i)
         /\ Loadable(j) /\ EmbedPaths(folder.files[j].doc) = {}
         /\ i < log[r][k].file /\ j < log[r][k].file

(***************************************************************************)
(* C9                                                                      *)
(***************************************************************************)
\* C9: the updates the consumer queues for a request are the sent records in
\* scan order (documents in listing order, the embeds of a document in
\* pre-order), then one completion update, queued only after the channel is
\* closed; nothing is queued after the completion update, and the UI runs
\* the updates in that order.
C9_UpdatesInScanOrder ==
  \A r \in Requests :
    /\ \A i, j \in 1..Len(log[r]) : i < j =>
         \/ log[r][i].file < log[r][j].file
         \/ log[r][i].file = log[r][j].file /\ PathBefore(log[r][i].path, log[r][j].path)
    /\ Len(QueuedRecords(r)) <= Len(SentLines(r))
    /\ \A i \in 1..Len(QueuedRecords(r)) : QueuedRecords(r)[i].Result = SentLines(r)[i].Result
    /\ \A i \in 1..Len(queued[r]) : queued[r][i].kind = "done" =>
         /\ i = Len(queued[r])
         /\ chanClosed[r]
         /\ Len(queued[r]) = Len(SentLines(r)) + 1
    /\ consumer[r].pc = "exit" <=>
         (queued[r] # <<>> /\ queued[r][Len(queued[r])].kind = "done")
    /\ r = requests =>
         SelectSeq(resultList, LAMBDA u : u.kind # "searching")
            \o SelectSeq(updates, LAMBDA u : u.req = r) = queued[r]

\* a request has ended with two records of one document, the second an embed
\* nested in the first, and the completion update
C9_Witness ==
  \E r \in Requests :
    /\ consumer[r].pc = "exit"
    /\ Len(queued[r]) >= 3
    /\ \E i \in 1..(Len(log[r]) - 1) :
         /\ log[r][i].sent /\ log[r][i + 1].sent
         /\ log[r][i].file = log[r][i + 1].file
         /\ Len(log[r][i].path) < Len(log[r][i + 1].path)
         /\ SubSeq(log[r][i + 1].path, 1, Len(log[r][i].path)) = log[r][i].path

(***************************************************************************)
(* C10                                                                     *)
(***************************************************************************)
\* C10: at most one scan is in flight: the field is disabled from the
\* submission of a search until the completion update that follows the close
\* of its channel, a Search task is never started while the channel of an
\* earlier request is open, and the result list never holds entries of two
\* requests.
C10_OneScanAtATime ==
  /\ Cardinality({ r \in Requests : InFlight(r) }) <= 1
  /\ \A r1, r2 \in Requests : (r1 < r2 /\ r2 <= requests) => chanClosed[r1]
  /\ ~disabled =>
       \A r \in 1..requests :
         /\ chanClosed[r]
         /\ consumer[r].pc = "exit"
         /\ \A i \in 1..Len(updates) : updates[i].req # r
  /\ \A i \in 1..Len(resultList) : resultList[i].req = requests

\* the second request is scanning, the field is disabled, and a record of
\* the second request is on the result list
C10_Witness ==
  /\ requests = 2
  /\ disabled
  /\ InFlight(2)
  /\ \E i \in 1..Len(resultList) : resultList[i].kind = "record" /\ resultList[i].req = 2

====
